---- MODULE Spec2Model ----
(***************************************************************************)
(* CVIntel: the scoring engine (calculateScores), the client analysis      *)
(* pipeline (runAnalysis and the services it awaits) and the server's      *)
(* persistence handlers, as state machines.                                *)
(*                                                                         *)
(* A JavaScript object is a function from its field names to values; a     *)
(* field the object does not carry is a name outside its DOMAIN.           *)
(***************************************************************************)
EXTENDS Integers, Sequences, FiniteSets, TLC

VARIABLES
    \* ---- scoring engine harness
    signals,        \* the Signals argument of calculateScores
    scores,         \* the ScoreData it returned, or NoScores before the call
    scorePc,        \* "input" before the call, then "scored" or "threw"
    \* ---- client (App.tsx): React state and the runs of runAnalysis
    view,           \* 'landing' | 'onboarding' | 'analyzing' | 'report' | 'history'
    user,           \* the user state: null, a profile, or an error body
    loadingStep,    \* the text under the spinner
    analysisResult, \* null or the result of a run
    optimizedCv,    \* null or the optimized content
    apiKey,         \* whether GEMINI_API_KEY is set
    storeConfigured, \* whether the server's SUPABASE_* variables are set
    aiClient,       \* whether the lazily created AI client exists
    runs,           \* the invocations of runAnalysis, by number
    nRuns,          \* how many invocations have started
    isOptimizing,   \* the isOptimizing state
    opts,           \* the invocations of handleOptimize, by number
    nOpts,          \* how many of them have started
    historyFetches, \* the requests of fetchHistory in flight
    \* ---- server (server.ts): the store's tables and the requests in flight
    users,          \* rows of table users
    cvs,            \* rows of table cvs
    cvScores,       \* rows of table cv_scores
    cvReports,      \* rows of table cv_reports
    nextId,         \* the id the store generates next
    geminiConfigured, \* whether the server's GEMINI_API_KEY is set
    serverClients,  \* the server's aiClient and supabaseClient, 0 for null
    constructed,    \* how many clients of each kind were constructed
    reqs,           \* the requests the server has received, by number
    nReqs           \* how many requests have arrived

scoringVars == <<signals, scores, scorePc>>

optimizeVars == <<isOptimizing, opts, nOpts>>

historyVars == <<historyFetches>>

clientVars == <<view, user, loadingStep, analysisResult, optimizedCv, apiKey, storeConfigured,
                aiClient, runs, nRuns, isOptimizing, opts, nOpts,
                historyFetches>>

serverVars == <<users, cvs, cvScores, cvReports, nextId, geminiConfigured,
                serverClients, constructed, reqs, nReqs>>

vars == <<signals, scores, scorePc, view, user, loadingStep, analysisResult,
          optimizedCv, apiKey, storeConfigured, aiClient, runs, nRuns,
          isOptimizing, opts, nOpts, historyFetches,
          users, cvs, cvScores, cvReports, nextId, geminiConfigured,
          serverClients, constructed, reqs, nReqs>>

(***************************************************************************)
(* JavaScript values                                                       *)
(***************************************************************************)

\* JSON.parse("{}"): the object with no fields.
EmptyObject == [f \in {} |-> f]

\* obj.f === v for a string v: false when the field is missing (undefined).
FieldIs(obj, f, v) == f \in DOMAIN obj /\ obj[f] = v

\* obj.f?.length, compared: undefined when the field is missing, so that
\* undefined === 0 and undefined > n are both false.
HasLength(obj, f) == f \in DOMAIN obj

\* if (obj.f): a missing field and the empty string are falsy, every other
\* string is truthy.
Truthy(obj, f) == f \in DOMAIN obj /\ obj[f] # ""

\* JSON.parse("null"): the value whose property reads throw a TypeError.
Null == [null |-> TRUE]

IsNull(x) == "null" \in DOMAIN x

\* JSON.parse(text): without a default the empty text is a SyntaxError too.
JsonParseNoDefault(text, dflt) ==
    IF text = "json" THEN "value" ELSE "SyntaxError"

\* JSON.parse(text || dflt): the default for an empty text, the decoded
\* value for a JSON text, a SyntaxError for any other text.
JsonParse(text, dflt) ==
    CASE text = ""     -> dflt
      [] text = "json" -> "value"
      [] OTHER         -> "SyntaxError"

\* JSON.parse(text || "{}") throws.
Unparsable(text) == JsonParse(text, "{}") = "SyntaxError"

\* A list of n strings.
ListOf(n, x) == [i \in 1..n |-> x]

(***************************************************************************)
(* Signals: what detectSignals can hand to calculateScores.  Each group    *)
(* is either the object the provider's schema describes or the empty       *)
(* object of an empty response text.                                       *)
(***************************************************************************)

\* core_role_keywords_present?.length > 5
KeywordThreshold == 5
\* percentage_of_bullets_with_metrics > 40
MetricsThreshold == 40
\* overall >= 75, overall >= 50
LowRiskFloor    == 75
MediumRiskFloor == 50

\* The longest ats_risk_elements list the harness draws.
MaxRiskElements == 1

StructureSignals ==
    { [section_order_quality |-> a, formatting_consistency |-> b,
       ats_risk_elements |-> ListOf(n, "tables")] :
         a \in {"good", "poor"}, b \in {"good", "average"},
         n \in 0..MaxRiskElements }
    \cup { [section_order_quality |-> a, formatting_consistency |-> "good"] :
             a \in {"good", "poor"} }
    \cup { EmptyObject }

KeywordSignals ==
    { [keyword_density_level |-> d,
       core_role_keywords_present |-> ListOf(n, "kw")] :
         d \in {"low", "moderate"},
         n \in {0, KeywordThreshold, KeywordThreshold + 1} }
    \cup { EmptyObject }

ImpactSignals ==
    { [percentage_of_bullets_with_metrics |-> p, action_verb_strength |-> v,
       achievement_framing_level |-> a] :
         p \in {MetricsThreshold, MetricsThreshold + 1},
         v \in {"strong", "weak"}, a \in {"high", "medium"} }
    \cup { EmptyObject }

AlignmentSignals ==
    { [title_alignment |-> t, experience_relevance |-> e,
       industry_language_presence |-> i] :
         t \in {"high", "low"}, e \in {"high", "medium"},
         i \in {"yes", "no", ""} }
    \cup { EmptyObject }

ClaritySignals ==
    { [grammar_error_frequency |-> g, sentence_clarity |-> s,
       tone_professionalism |-> t] :
         g \in {"none", "high"}, s \in {"good", "poor"},
         t \in {"professional", "informal"} }
    \cup { EmptyObject }

SignalsInputs ==
    [structure : StructureSignals, keywords : KeywordSignals,
     impact : ImpactSignals, alignment : AlignmentSignals,
     clarity : ClaritySignals]

(***************************************************************************)
(* calculateScores                                                         *)
(***************************************************************************)

Bonus(cond, n) == IF cond THEN n ELSE 0

\* The structure score with the +2 granted whenever the list has no length
\* to speak of: !signals.structure.ats_risk_elements?.length.
structureScoreLenient(s) ==
    10
    + Bonus(FieldIs(s.structure, "section_order_quality", "good"), 4)
    + Bonus(FieldIs(s.structure, "formatting_consistency", "good"), 4)
    + Bonus(~HasLength(s.structure, "ats_risk_elements")
            \/ Len(s.structure["ats_risk_elements"]) = 0, 2)

structureScore(s) ==
    10
    + Bonus(FieldIs(s.structure, "section_order_quality", "good"), 4)
    + Bonus(FieldIs(s.structure, "formatting_consistency", "good"), 4)
    + Bonus(HasLength(s.structure, "ats_risk_elements")
            /\ Len(s.structure["ats_risk_elements"]) = 0, 2)

\* The keyword score with the bonuses of a 25-point dimension.
keywordScoreWide(s) ==
    5
    + Bonus(FieldIs(s.keywords, "keyword_density_level", "moderate"), 10)
    + Bonus(HasLength(s.keywords, "core_role_keywords_present")
            /\ Len(s.keywords["core_role_keywords_present"])
                 > KeywordThreshold, 10)

keywordScore(s) ==
    5
    + Bonus(FieldIs(s.keywords, "keyword_density_level", "moderate"), 5)
    + Bonus(HasLength(s.keywords, "core_role_keywords_present")
            /\ Len(s.keywords["core_role_keywords_present"])
                 > KeywordThreshold, 10)

\* The impact score with the metrics bonus granted from the threshold on.
impactScoreInclusive(s) ==
    5
    + Bonus("percentage_of_bullets_with_metrics" \in DOMAIN s.impact
            /\ s.impact["percentage_of_bullets_with_metrics"]
                 >= MetricsThreshold, 8)
    + Bonus(FieldIs(s.impact, "action_verb_strength", "strong"), 4)
    + Bonus(FieldIs(s.impact, "achievement_framing_level", "high"), 3)

impactScore(s) ==
    5
    + Bonus("percentage_of_bullets_with_metrics" \in DOMAIN s.impact
            /\ s.impact["percentage_of_bullets_with_metrics"]
                 > MetricsThreshold, 8)
    + Bonus(FieldIs(s.impact, "action_verb_strength", "strong"), 4)
    + Bonus(FieldIs(s.impact, "achievement_framing_level", "high"), 3)

alignmentScore(s) ==
    5
    + Bonus(FieldIs(s.alignment, "title_alignment", "high"), 6)
    + Bonus(FieldIs(s.alignment, "experience_relevance", "high"), 6)
    + Bonus(Truthy(s.alignment, "industry_language_presence"), 3)

clarityScore(s) ==
    5
    + Bonus(FieldIs(s.clarity, "grammar_error_frequency", "none"), 6)
    + Bonus(FieldIs(s.clarity, "sentence_clarity", "good"), 6)
    + Bonus(FieldIs(s.clarity, "tone_professionalism", "professional"), 3)

\* The tiers cut with > in place of >=.
atsRiskOfStrict(overall) ==
    IF overall > LowRiskFloor THEN "Low"
    ELSE IF overall > MediumRiskFloor THEN "Medium"
    ELSE "High"

atsRiskOf(overall) ==
    IF overall >= LowRiskFloor THEN "Low"
    ELSE IF overall >= MediumRiskFloor THEN "Medium"
    ELSE "High"

calculateScores(s) ==
    LET structure == structureScore(s)
        keyword   == keywordScore(s)
        impact    == impactScore(s)
        alignment == alignmentScore(s)
        clarity   == clarityScore(s)
        overall   == structure + keyword + impact + alignment + clarity
    IN  [structure |-> structure, keyword |-> keyword, impact |-> impact,
         alignment |-> alignment, clarity |-> clarity, overall |-> overall,
         atsRisk |-> atsRiskOf(overall)]

\* calculateScores as if it read ats_risk_elements.length and
\* core_role_keywords_present.length without the optional chaining.
ThrowsTypeErrorUnchained(s) ==
    \/ \E g \in DOMAIN s : IsNull(s[g])
    \/ "ats_risk_elements" \notin DOMAIN s.structure
    \/ "core_role_keywords_present" \notin DOMAIN s.keywords

\* calculateScores throws exactly when it reads a property of a group that is
\* null: signals.<group>.<field>.  A missing field reads as undefined, and
\* ?.length of undefined is undefined.
ThrowsTypeError(s) == \E g \in DOMAIN s : IsNull(s[g])

NoScores == [structure |-> 0, keyword |-> 0, impact |-> 0, alignment |-> 0,
             clarity |-> 0, overall |-> 0, atsRisk |-> "none"]

(***************************************************************************)
(* The server: server.ts.  A handler is a chain of continuations, one per  *)
(* awaited call of the store; the store executes each call atomically and  *)
(* may answer any call with an error.  Handlers of different requests      *)
(* interleave at their awaits.                                             *)
(***************************************************************************)

\* How many requests a behaviour holds.
MaxRequests == 2

ReqIds == 1..MaxRequests

\* What the requests carry.
BodyEmails == {"a@cv"}
BodyNames  == {"Ann", "Bea"}
BodyUserIds == {1, 2}

\* The fields of a profile that POST /api/auth/mock writes.
ProfileFields ==
    {"full_name", "target_role", "industry", "career_level", "target_country"}

\* The profile a request body carries: each field holds the mark of the body
\* it came from.
BodyProfile(name) == [f \in ProfileFields |-> name]
NoRow == [id |-> 0]

IdleReq ==
    [kind     |-> "none",
     pc       |-> "idle",
     email    |-> "",
     name     |-> "",
     userId   |-> 0,
     scores   |-> NoScores,
     type     |-> "",          \* req.body.type of POST /api/ai/optimize
     client   |-> 0,           \* what getAI() or getSupabase() returned
     calls    |-> << >>,       \* the provider requests issued, in order
     parts    |-> << >>,       \* what JSON.parse made of each provider text
     existing |-> NoRow,       \* existingUser of POST /api/auth/mock
     cvId     |-> 0,           \* cvData.id of POST /api/analysis/save
     status   |-> 0,           \* the HTTP status answered, 0 while in flight
     answers  |-> 0,           \* how many responses were sent
     data     |-> {},          \* the rows answered
     failedAt |-> "none",      \* the call whose error was thrown
     error    |-> "none",      \* the kind of error that was thrown
     savedBefore |-> {}]       \* the saves answered 200 before the query ran

ServerIdle ==
    /\ users = {}
    /\ cvs = {}
    /\ cvScores = {}
    /\ cvReports = {}
    /\ nextId = 1
    /\ serverClients = [ai |-> 0, store |-> 0]
    /\ constructed = [ai |-> 0, store |-> 0]
    /\ reqs = [q \in ReqIds |-> IdleReq]
    /\ nReqs = 0

(***************************************************************************)
(* The client: App.tsx.  A run of runAnalysis is a chain of continuations, *)
(* one per await; each continuation is one action.  The server and the     *)
(* provider are the environment here: a response is drawn from the answers *)
(* they can give.                                                          *)
(***************************************************************************)

\* How many invocations of runAnalysis a behaviour holds.
MaxRuns == 2
\* The e-mail address the user types into the form.
Emails == {"a@cv"}
RunIds == 1..MaxRuns

\* The five sub-requests of detectSignals, in the order of the array.
SignalGroups == {"structure", "keywords", "impact", "alignment", "clarity"}
Requests == {"auth", "parse", "explain", "save"} \cup SignalGroups

\* The user state and the body of an answer of POST /api/auth/mock.
NullUser == [kind |-> "null"]
ProfileOf(email) == [kind |-> "profile", id |-> email, email |-> email]
ErrorBody == [kind |-> "error"]

\* if (user): null is falsy, every object is truthy.
UserTruthy(u) == u.kind # "null"

\* JSON.stringify({ userId: user.id, ... }): an undefined userId is dropped.
SaveBody(u, r) ==
    IF "id" \in DOMAIN u THEN [userId |-> u.id, run |-> r]
    ELSE [run |-> r]

NoBody == [run |-> 0]
NullResult == [kind |-> "null"]

\* optimizedCv: null, or the summary and experience handleOptimize built
\* from the analysis result of run `run`.
NullCv == [kind |-> "null"]
OptimizedFrom(run) == [kind |-> "optimized", run |-> run]

\* What the form holds when the button is clicked.
Forms == [cvText : {"", "cv"}, email : Emails \cup {""},
          targetRole : {"", "role"}]

\* The text of a provider response, as JSON.parse(text || "{}") sees it.
TextKinds == {"json", "", "malformed"}

\* The signal object a well-formed response of a group decodes to.
BestSignals ==
    [structure |-> [section_order_quality |-> "good",
                    formatting_consistency |-> "good",
                    ats_risk_elements |-> << >>],
     keywords  |-> [keyword_density_level |-> "moderate",
                    core_role_keywords_present
                        |-> ListOf(KeywordThreshold + 1, "kw")],
     impact    |-> [percentage_of_bullets_with_metrics
                        |-> MetricsThreshold + 1,
                    action_verb_strength |-> "strong",
                    achievement_framing_level |-> "high"],
     alignment |-> [title_alignment |-> "high",
                    experience_relevance |-> "high",
                    industry_language_presence |-> "yes"],
     clarity   |-> [grammar_error_frequency |-> "none",
                    sentence_clarity |-> "good",
                    tone_professionalism |-> "professional"]]

\* The five response texts a join reads: all well-formed, all empty, or one
\* of them malformed.
SignalTexts ==
    { [g \in SignalGroups |-> k] : k \in {"json", ""} }
    \cup { [g \in SignalGroups |-> IF g = bad THEN "malformed" ELSE "json"] :
              bad \in SignalGroups }

\* JSON.parse(x.text || "{}") of each group (no text is malformed here).
ParseSignals(texts) ==
    [g \in SignalGroups |->
        IF texts[g] = "" THEN EmptyObject ELSE BestSignals[g]]

IdleRun ==
    [id          |-> 0,
     pc          |-> "idle",
     email       |-> "",       \* context.email, cvText and
     cvText      |-> "",       \* context.targetRole as the invocation
     targetRole  |-> "",       \* found them
     closureUser |-> NullUser,     \* `user` as the invoked closure sees it
     currentUser |-> NullUser,     \* what handleAuth returned
     parsed      |-> FALSE,        \* parseCV has returned a ParsedCV
     jobs        |-> 0,            \* its work_experience, see JobLists
     fulfilled   |-> 0,            \* sub-requests of detectSignals fulfilled
     subRejected |-> FALSE,        \* a sub-request of this run was rejected
     scores      |-> NoScores,
     failedStage |-> "none",
     cause       |-> "none",       \* whether the catch was entered for an
                                   \* empty text or for something thrown
     texts       |-> [g \in SignalGroups |-> "none"],
                                   \* the five texts the join has parsed
     issued      |-> [q \in Requests |-> 0],
     scoreCalls  |-> 0,
     alerts      |-> 0,
     saveBody    |-> NoBody,
     saveAnswer  |-> "none"]       \* how the save request was answered

\* How many invocations of handleOptimize a behaviour holds.
MaxOptimizes == 2

OptIds == 1..MaxOptimizes

\* The longest work_experience list of a parsed CV.
MaxJobs == 2

\* parsedCv.work_experience of the parsedCv of an empty response text:
\* undefined, no list at all.
NoList == -1

\* parsedCv.work_experience as handleOptimize finds it: the number of its
\* entries, or NoList.
JobLists == 0..MaxJobs \cup {NoList}

\* The pipeline never reads work_experience: its parse answers leave the
\* list out, as the response schema allows (it requires no field).
PipelineJobs == {NoList}

IdleOpt ==
    [pc       |-> "idle",
     run      |-> 0,          \* the run whose result the closure captured
     jobs     |-> 0,          \* work_experience of the captured result
     summary  |-> 0,          \* summary requests issued
     bullets  |-> 0,          \* bullet requests issued
     answers  |-> << >>,      \* the bullet answers awaited so far
     alerts   |-> 0]          \* alert('Optimization failed.')

OptimizeIdle ==
    /\ isOptimizing = FALSE
    /\ opts = [o \in OptIds |-> IdleOpt]
    /\ nOpts = 0

\* getAI(): the client exists, or the key is there to create it.
getAI == aiClient \/ apiKey

\* What brought a stage to the catch block: the empty text of a response,
\* or an error thrown (a rejection, a missing key, a SyntaxError).
CauseOf(outcome) == IF outcome = "" THEN "empty text" ELSE "thrown"

\* A catch block that logs the error and shows no alert.
FailedQuietly(run, stage) ==
    [run EXCEPT !.pc = "failed", !.failedStage = stage]

\* The catch block of runAnalysis as far as it concerns the run.
Failed(run, stage) ==
    [run EXCEPT !.pc = "failed", !.failedStage = stage, !.alerts = @ + 1]

\* A join that fulfils with the first sub-request fulfilled.
PromiseAny(fulfilled) == fulfilled >= 1

\* Promise.all over the five sub-requests fulfils: each has been fulfilled.
\* The sub-requests differ in their prompts only, so a run counts them.
PromiseAll(fulfilled) == fulfilled = Cardinality(SignalGroups)

\* The requests a call of detectSignals issues.
IssueSignals(issued) ==
    [q \in Requests |-> IF q \in SignalGroups THEN issued[q] + 1
                        ELSE issued[q]]

\* The invocation r returns: `final` is its record from then on.
Ends(r, final) == runs' = [runs EXCEPT ![r] = final]

ClientIdle ==
    /\ view = "landing"
    /\ user = NullUser
    /\ loadingStep = ""
    /\ analysisResult = NullResult
    /\ optimizedCv = NullCv
    /\ apiKey = TRUE
    /\ aiClient = FALSE
    /\ runs = [r \in RunIds |-> IdleRun]
    /\ nRuns = 0
    /\ OptimizeIdle
    /\ historyFetches = 0

\* After mount: the useEffect has read localStorage.
InitClient ==
    /\ view = "landing"
    /\ user \in {NullUser} \cup { ProfileOf(e) : e \in Emails }
    /\ loadingStep = ""
    /\ analysisResult = NullResult
    /\ optimizedCv = NullCv
    /\ apiKey \in BOOLEAN
    /\ storeConfigured \in BOOLEAN
    /\ aiClient = FALSE
    /\ runs = [r \in RunIds |-> IdleRun]
    /\ nRuns = 0
    /\ OptimizeIdle
    /\ historyFetches = 0
    /\ signals = BestSignals
    /\ scores = NoScores
    /\ scorePc = "input"
    /\ geminiConfigured = TRUE
    /\ ServerIdle

\* The landing button and the report's "Analyze another CV".
ClickAnalyze ==
    /\ \/ view = "landing"
       \/ view = "report" /\ analysisResult # NullResult
    /\ view' = "onboarding"
    /\ UNCHANGED <<user, loadingStep, analysisResult, optimizedCv, apiKey, storeConfigured,
                   aiClient, runs, nRuns>>
    /\ UNCHANGED <<scoringVars, serverVars, optimizeVars, historyVars>>

\* The navigation logo.
ClickLogo ==
    /\ view # "landing"
    /\ view' = "landing"
    /\ UNCHANGED <<user, loadingStep, analysisResult, optimizedCv, apiKey, storeConfigured,
                   aiClient, runs, nRuns>>
    /\ UNCHANGED <<scoringVars, serverVars, optimizeVars, historyVars>>

\* The guard with the target role left out: !cvText || !context.email.
BlankButRole(f) == f.cvText = "" \/ f.email = ""

\* !cvText || !context.email || !context.targetRole: the empty string is
\* the falsy value of a text field.
Blank(f) == f.cvText = "" \/ f.email = "" \/ f.targetRole = ""

\* The forms the button "Unlock My Analysis" is enabled for.
FilledForms == { f \in Forms : ~Blank(f) }

\* The invocation as the model keeps it: its number and the three fields.
Invoked(run, n, f) ==
    [run EXCEPT !.id = n, !.email = f.email, !.cvText = f.cvText,
                !.targetRole = f.targetRole]

\* runAnalysis up to its first await: it returns at once on a blank field,
\* otherwise the fetch of handleAuth is issued.
RunAnalysis(f) ==
    /\ view = "onboarding"
    /\ nRuns < MaxRuns
    /\ nRuns' = nRuns + 1
    /\ IF Blank(f)
       THEN /\ runs' = [runs EXCEPT ![nRuns + 1] =
                          [Invoked(@, nRuns + 1, f) EXCEPT !.pc = "returned"]]
            /\ UNCHANGED <<view, optimizedCv, loadingStep>>
       ELSE /\ view' = "analyzing"
            /\ optimizedCv' = NullCv
            /\ loadingStep' = "Capturing lead profile..."
            /\ runs' = [runs EXCEPT ![nRuns + 1] =
                          [Invoked(@, nRuns + 1, f) EXCEPT
                                    !.pc = "auth",
                                    !.closureUser = user,
                                    !.issued["auth"] = @ + 1]]
    /\ UNCHANGED <<user, analysisResult, apiKey, storeConfigured, aiClient>>
    /\ UNCHANGED <<scoringVars, serverVars, optimizeVars, historyVars>>

\* The answer of POST /api/auth/mock: the profile row, or the 500 body of a
\* server whose getSupabase() throws.  setUser(data), then parseCV is called.
AuthResponse(r, outcome) ==
    /\ runs[r].pc = "auth"
    /\ IF outcome = "reject"
       THEN /\ Ends(r, Failed([runs[r] EXCEPT !.cause = "thrown"], "auth"))
            /\ view' = "landing"
            /\ UNCHANGED <<user, loadingStep, aiClient>>
       ELSE LET data == IF storeConfigured THEN ProfileOf(runs[r].email)
                        ELSE ErrorBody
            IN  /\ user' = data
                /\ loadingStep' = "Parsing CV structure..."
                /\ IF getAI
                   THEN /\ aiClient' = TRUE
                        /\ runs' = [runs EXCEPT ![r] =
                                      [@ EXCEPT !.pc = "parse",
                                                !.currentUser = data,
                                                !.issued["parse"] = @ + 1]]
                        /\ UNCHANGED view
                   ELSE /\ Ends(r, Failed([runs[r] EXCEPT
                                              !.currentUser = data,
                                              !.cause = "thrown"], "parse"))
                        /\ view' = "landing"
                        /\ UNCHANGED aiClient
    /\ UNCHANGED <<analysisResult, optimizedCv, apiKey, storeConfigured, nRuns>>
    /\ UNCHANGED <<scoringVars, serverVars, optimizeVars, historyVars>>

\* The answer of the parse request, a JSON text holding a work_experience
\* list of j entries or an empty text: detectSignals issues its five
\* requests.
ParseResponse(r, outcome, j) ==
    /\ runs[r].pc = "parse"
    /\ IF outcome = "reject" \/ Unparsable(outcome)
       THEN /\ Ends(r, Failed([runs[r] EXCEPT !.cause = CauseOf(outcome)],
                            "parse"))
            /\ view' = "landing"
            /\ UNCHANGED loadingStep
       ELSE /\ loadingStep' = "Detecting hiring signals..."
            /\ runs' = [runs EXCEPT ![r] =
                          [@ EXCEPT !.pc = "detect", !.parsed = TRUE,
                                    !.jobs = IF outcome = "" THEN NoList
                                             ELSE j,
                                    !.issued = IssueSignals(@)]]
            /\ UNCHANGED view
    /\ UNCHANGED <<user, analysisResult, optimizedCv, apiKey, storeConfigured, aiClient, nRuns>>
    /\ UNCHANGED <<scoringVars, serverVars, optimizeVars, historyVars>>

\* A sub-request whose rejection is swallowed and counted as an answer.
SignalRejectedSwallowed(r) ==
    /\ runs[r].pc = "detect"
    /\ ~PromiseAll(runs[r].fulfilled + 1)
    /\ runs' = [runs EXCEPT ![r].subRejected = TRUE, ![r].fulfilled = @ + 1]
    /\ UNCHANGED <<view, user, loadingStep, analysisResult, optimizedCv,
                   apiKey, storeConfigured, aiClient, nRuns>>
    /\ UNCHANGED <<scoringVars, serverVars, optimizeVars, historyVars>>

\* One of the sub-requests still pending is rejected: Promise.all rejects
\* at once.
SignalRejected(r) ==
    /\ runs[r].pc = "detect"
    /\ Ends(r, Failed([runs[r] EXCEPT !.subRejected = TRUE,
                                      !.cause = "thrown"], "detect"))
    /\ view' = "landing"
    /\ UNCHANGED <<user, loadingStep, analysisResult, optimizedCv, apiKey, storeConfigured,
                   aiClient, nRuns>>
    /\ UNCHANGED <<scoringVars, serverVars, optimizeVars, historyVars>>

\* One of the sub-requests still pending is fulfilled.  With the last one
\* Promise.all fulfils: the five texts are parsed, the scores are calculated
\* and the explain request is issued.
SignalFulfilled(r, answered) ==
    /\ runs[r].pc = "detect"
    /\ LET n == runs[r].fulfilled + 1
       IN  IF ~PromiseAll(n)
           THEN /\ runs' = [runs EXCEPT ![r].fulfilled = n]
                /\ UNCHANGED <<view, loadingStep>>
           ELSE \E texts \in answered :
                  IF \E h \in SignalGroups : Unparsable(texts[h])
                  THEN /\ Ends(r, Failed([runs[r] EXCEPT
                                            !.fulfilled = n,
                                            !.cause = CauseOf(texts[
                                               CHOOSE h \in SignalGroups :
                                                  Unparsable(texts[h])])],
                                         "detect"))
                       /\ view' = "landing"
                       /\ UNCHANGED loadingStep
                  ELSE /\ runs' = [runs EXCEPT ![r] =
                                     [@ EXCEPT !.pc = "explain",
                                               !.fulfilled = n,
                                               !.texts = texts,
                                               !.scores = calculateScores(
                                                   ParseSignals(texts)),
                                               !.scoreCalls = @ + 1,
                                               !.issued["explain"] = @ + 1]]
                       /\ loadingStep' = "Generating diagnostic report..."
                       /\ UNCHANGED view
    /\ UNCHANGED <<user, analysisResult, optimizedCv, apiKey, storeConfigured, aiClient, nRuns>>
    /\ UNCHANGED <<scoringVars, serverVars, optimizeVars, historyVars>>

\* The answer of the explain request: the result is stored and, if (user),
\* the save request is issued; otherwise the report is shown.
ExplainResponse(r, outcome) ==
    /\ runs[r].pc = "explain"
    /\ IF outcome = "reject" \/ Unparsable(outcome)
       THEN /\ Ends(r, Failed([runs[r] EXCEPT !.cause = CauseOf(outcome)],
                            "explain"))
            /\ view' = "landing"
            /\ UNCHANGED analysisResult
       ELSE /\ analysisResult' = [kind |-> "result", run |-> r,
                                  scores |-> runs[r].scores,
                                  jobs |-> runs[r].jobs]
            /\ IF UserTruthy(runs[r].closureUser)
               THEN /\ runs' = [runs EXCEPT ![r] =
                                  [@ EXCEPT !.pc = "save",
                                            !.saveBody =
                                                SaveBody(runs[r].closureUser,
                                                         r),
                                            !.issued["save"] = @ + 1]]
                    /\ UNCHANGED view
               ELSE /\ Ends(r, [runs[r] EXCEPT !.pc = "report"])
                    /\ view' = "report"
    /\ UNCHANGED <<user, loadingStep, optimizedCv, apiKey, storeConfigured, aiClient, nRuns>>
    /\ UNCHANGED <<scoringVars, serverVars, optimizeVars, historyVars>>

\* The answer of POST /api/analysis/save: fetch resolves with any HTTP
\* answer, 200 ("ok") or 500 ("error"), and the response is not read, so
\* either shows the report; only a rejected fetch is thrown.
SaveResponse(r, outcome) ==
    /\ runs[r].pc = "save"
    /\ outcome = "ok" => storeConfigured
    /\ IF outcome = "reject"
       THEN /\ Ends(r, Failed([runs[r] EXCEPT !.cause = "thrown",
                                               !.saveAnswer = outcome],
                            "save"))
            /\ view' = "landing"
       ELSE /\ Ends(r, [runs[r] EXCEPT !.pc = "report",
                                       !.saveAnswer = outcome])
            /\ view' = "report"
    /\ UNCHANGED <<user, loadingStep, analysisResult, optimizedCv, apiKey, storeConfigured,
                   aiClient, nRuns>>
    /\ UNCHANGED <<scoringVars, serverVars, optimizeVars, historyVars>>

NextClient ==
    \/ ClickAnalyze
    \/ ClickLogo
    \/ \E f \in FilledForms : RunAnalysis(f)
    \/ \E r \in RunIds, o \in {"answer", "reject"} : AuthResponse(r, o)
    \/ \E r \in RunIds, o \in TextKinds \cup {"reject"}, j \in PipelineJobs :
          ParseResponse(r, o, j)
    \/ \E r \in RunIds : SignalRejected(r)
    \/ \E r \in RunIds : SignalFulfilled(r, SignalTexts)
    \/ \E r \in RunIds, o \in TextKinds \cup {"reject"} : ExplainResponse(r, o)
    \/ \E r \in RunIds, o \in {"ok", "error", "reject"} : SaveResponse(r, o)

SpecClient == InitClient /\ [][NextClient]_vars

(***************************************************************************)
(* The handlers of server.ts.                                              *)
(***************************************************************************)

\* The scores a save request carries.
BodyScores ==
    { calculateScores(BestSignals),
      calculateScores([g \in DOMAIN BestSignals |-> EmptyObject]) }

\* The body of every error answer: { error: error.message }.
ErrorAnswer == {[error |-> "message"]}

\* A catch block that answers a configuration error with a status of its
\* own.
ThrowCoded(req, call, kind) ==
    [req EXCEPT !.pc = "done",
                !.status = IF kind = "config" THEN 503 ELSE 500,
                !.answers = @ + 1, !.data = ErrorAnswer,
                !.failedAt = call, !.error = kind]

\* res.status(500).json({ error: error.message }) in a handler's catch
\* block, whatever was thrown.
Throw(req, call, kind) ==
    [req EXCEPT !.pc = "done", !.status = 500, !.answers = @ + 1,
                !.data = ErrorAnswer, !.failedAt = call, !.error = kind]

\* res.json(...) of a handler, its last statement.
Respond(req, rows) == [req EXCEPT !.pc = "done", !.status = 200,
                                  !.answers = @ + 1, !.data = rows]

\* Which client the handler of a request asks for.
ClientOf(kind) == IF kind \in {"analyze", "optimize"} THEN "ai" ELSE "store"

Configured(which) ==
    IF which = "ai" THEN geminiConfigured ELSE storeConfigured

\* A getter that constructs a client on every call.
GetEager(which) ==
    IF ~Configured(which) THEN 0 ELSE constructed[which] + 1

\* getAI() / getSupabase(): the cached client; or 0 for the thrown
\* configuration error; or the client constructed now.
GetLazy(which) ==
    IF serverClients[which] # 0 THEN serverClients[which]
    ELSE IF ~Configured(which) THEN 0
    ELSE constructed[which] + 1

\* .from('users').select('*').eq('email', email)
UsersByEmail(email) == { u \in users : u.email = email }

\* A history query that does not filter by the owner of the CV.
HistoryOfAnyone(userId) ==
    UNION { { [cv_id |-> s.cv_id, overall_score |-> s.overall_score,
                ats_risk_level |-> s.ats_risk_level, user_id |-> c.user_id] :
                  c \in { d \in cvs : d.id = s.cv_id } } : s \in cvScores }

\* .from('cv_scores').select('*, cv_reports (...), cvs!inner (user_id)')
\*   .eq('cvs.user_id', userId): the score rows whose CV belongs to userId.
HistoryOf(userId) ==
    UNION { { [cv_id |-> s.cv_id, overall_score |-> s.overall_score,
                ats_risk_level |-> s.ats_risk_level, user_id |-> c.user_id] :
                  c \in { d \in cvs : d.id = s.cv_id /\ d.user_id = userId } } :
            s \in cvScores }

\* The saves answered with success so far.
SavedSoFar ==
    { q \in ReqIds : reqs[q].kind = "save" /\ reqs[q].status = 200 }

\* A request arrives; its handler runs up to its first await: it asks for
\* its client, which throws when the credentials are missing, and issues its
\* first call.
Arrive(kind, email, name, userId, sc, type) ==
    /\ nReqs < MaxRequests
    /\ LET q == nReqs + 1
           which == ClientOf(kind)
           got == GetLazy(which)
           first == CASE kind = "authCheck" -> "check"
                      [] kind = "authMock"  -> "select"
                      [] kind = "save"      -> "cv"
                      [] kind = "history"   -> "query"
                      [] kind = "analyze"   -> "parse"
                      [] kind = "optimize"  -> "rewrite"
           req == [IdleReq EXCEPT
                     !.kind = kind, !.email = email, !.name = name,
                     !.userId = userId, !.scores = sc, !.type = type]
       IN  /\ reqs' = [reqs EXCEPT ![q] =
                         IF got = 0
                         THEN Throw(req, "getClient", "config")
                         ELSE [req EXCEPT
                                 !.client = got,
                                 !.pc = first,
                                 !.calls = IF which = "ai" THEN <<first>>
                                           ELSE << >>]]
           /\ IF got # 0 /\ serverClients[which] = 0
              THEN /\ serverClients' = [serverClients EXCEPT ![which] = got]
                   /\ constructed' = [constructed EXCEPT ![which] = @ + 1]
              ELSE UNCHANGED <<serverClients, constructed>>
           /\ nReqs' = q
    /\ UNCHANGED <<users, cvs, cvScores, cvReports, nextId, geminiConfigured>>
    /\ UNCHANGED <<scoringVars, clientVars>>

\* POST /api/auth/mock: the select by e-mail with maybeSingle(), which is an
\* error when more than one row matches.
AuthSelect(q, ok) ==
    /\ reqs[q].pc = "select"
    /\ LET found == UsersByEmail(reqs[q].email)
       IN  reqs' = [reqs EXCEPT ![q] =
                      IF ~ok \/ Cardinality(found) > 1
                      THEN Throw(@, "select", "persistence")
                      ELSE IF found = {}
                      THEN [@ EXCEPT !.pc = "insert"]
                      ELSE [@ EXCEPT !.pc = "update",
                                     !.existing = CHOOSE u \in found : TRUE]]
    /\ UNCHANGED <<users, cvs, cvScores, cvReports, nextId, nReqs>>
    /\ UNCHANGED <<geminiConfigured, serverClients, constructed>>
    /\ UNCHANGED <<scoringVars, clientVars>>

\* POST /api/auth/mock: the insert of a new user.
AuthInsert(q, ok) ==
    /\ reqs[q].pc = "insert"
    /\ IF ok
       THEN LET row == [id |-> nextId, email |-> reqs[q].email]
                       @@ BodyProfile(reqs[q].name)
            IN  /\ users' = users \cup {row}
                /\ nextId' = nextId + 1
                /\ reqs' = [reqs EXCEPT ![q] = Respond(@, {row})]
       ELSE /\ reqs' = [reqs EXCEPT ![q] = Throw(@, "insert", "persistence")]
            /\ UNCHANGED <<users, nextId>>
    /\ UNCHANGED <<cvs, cvScores, cvReports, nReqs>>
    /\ UNCHANGED <<geminiConfigured, serverClients, constructed>>
    /\ UNCHANGED <<scoringVars, clientVars>>

\* The row u with the profile fields of the body written over it.
Updated(u, body) ==
    [f \in DOMAIN u |-> IF f \in ProfileFields THEN body[f] ELSE u[f]]

\* An update that deletes the existing row and inserts the body as a row
\* with a fresh id.
AuthUpdateReplacing(q, ok) ==
    /\ reqs[q].pc = "update"
    /\ LET old == { u \in users : u.id = reqs[q].existing.id }
           new == { [Updated(u, BodyProfile(reqs[q].name))
                       EXCEPT !.id = nextId] : u \in old }
       IN  IF ok /\ old # {}
           THEN /\ users' = (users \ old) \cup new
                /\ reqs' = [reqs EXCEPT ![q] = Respond(@, new)]
           ELSE /\ reqs' = [reqs EXCEPT ![q] = Throw(@, "update", "persistence")]
                /\ UNCHANGED users
    /\ UNCHANGED <<cvs, cvScores, cvReports, nextId, nReqs>>
    /\ UNCHANGED <<geminiConfigured, serverClients, constructed>>
    /\ UNCHANGED <<scoringVars, clientVars>>

\* POST /api/auth/mock: the update of the existing user, by id; single() is
\* an error when no row has that id.
AuthUpdate(q, ok) ==
    /\ reqs[q].pc = "update"
    /\ LET old == { u \in users : u.id = reqs[q].existing.id }
           new == { Updated(u, BodyProfile(reqs[q].name)) : u \in old }
       IN  IF ok /\ old # {}
           THEN /\ users' = (users \ old) \cup new
                /\ reqs' = [reqs EXCEPT ![q] = Respond(@, new)]
           ELSE /\ reqs' = [reqs EXCEPT ![q] = Throw(@, "update", "persistence")]
                /\ UNCHANGED users
    /\ UNCHANGED <<cvs, cvScores, cvReports, nextId, nReqs>>
    /\ UNCHANGED <<geminiConfigured, serverClients, constructed>>
    /\ UNCHANGED <<scoringVars, clientVars>>

\* POST /api/analysis/save, 1: the insert into cvs.
SaveCv(q, ok) ==
    /\ reqs[q].pc = "cv"
    /\ IF ok
       THEN /\ cvs' = cvs \cup {[id |-> nextId, user_id |-> reqs[q].userId]}
            /\ nextId' = nextId + 1
            /\ reqs' = [reqs EXCEPT ![q] = [@ EXCEPT !.pc = "score",
                                                     !.cvId = nextId]]
       ELSE /\ reqs' = [reqs EXCEPT ![q] = Throw(@, "cv", "persistence")]
            /\ UNCHANGED <<cvs, nextId>>
    /\ UNCHANGED <<users, cvScores, cvReports, nReqs>>
    /\ UNCHANGED <<geminiConfigured, serverClients, constructed>>
    /\ UNCHANGED <<scoringVars, clientVars>>

\* A score insert that, on an error, deletes the CV row written before it.
SaveScoresRollback(q, ok) ==
    /\ reqs[q].pc = "score"
    /\ IF ok
       THEN /\ cvScores' = cvScores \cup
                 {[cv_id |-> reqs[q].cvId,
                   overall_score |-> reqs[q].scores.overall,
                   ats_risk_level |-> reqs[q].scores.atsRisk]}
            /\ reqs' = [reqs EXCEPT ![q].pc = "report"]
            /\ UNCHANGED cvs
       ELSE /\ reqs' = [reqs EXCEPT ![q] = Throw(@, "score", "persistence")]
            /\ cvs' = { c \in cvs : c.id # reqs[q].cvId }
            /\ UNCHANGED cvScores
    /\ UNCHANGED <<users, cvReports, nextId, nReqs>>
    /\ UNCHANGED <<geminiConfigured, serverClients, constructed>>
    /\ UNCHANGED <<scoringVars, clientVars>>

\* POST /api/analysis/save, 2: the insert into cv_scores.
SaveScores(q, ok) ==
    /\ reqs[q].pc = "score"
    /\ IF ok
       THEN /\ cvScores' = cvScores \cup
                 {[cv_id |-> reqs[q].cvId,
                   overall_score |-> reqs[q].scores.overall,
                   ats_risk_level |-> reqs[q].scores.atsRisk]}
            /\ reqs' = [reqs EXCEPT ![q].pc = "report"]
       ELSE /\ reqs' = [reqs EXCEPT ![q] = Throw(@, "score", "persistence")]
            /\ UNCHANGED cvScores
    /\ UNCHANGED <<users, cvs, cvReports, nextId, nReqs>>
    /\ UNCHANGED <<geminiConfigured, serverClients, constructed>>
    /\ UNCHANGED <<scoringVars, clientVars>>

\* POST /api/analysis/save, 3: the insert into cv_reports, then the answer.
SaveReport(q, ok) ==
    /\ reqs[q].kind = "save"
    /\ reqs[q].pc = "report"
    /\ IF ok
       THEN /\ cvReports' = cvReports \cup {[cv_id |-> reqs[q].cvId]}
            /\ reqs' = [reqs EXCEPT ![q] = Respond(@, {})]
       ELSE /\ reqs' = [reqs EXCEPT ![q] = Throw(@, "report", "persistence")]
            /\ UNCHANGED cvReports
    /\ UNCHANGED <<users, cvs, cvScores, nextId, nReqs>>
    /\ UNCHANGED <<geminiConfigured, serverClients, constructed>>
    /\ UNCHANGED <<scoringVars, clientVars>>

\* GET /api/history/:userId: the joined select, then the answer.
HistoryQuery(q, ok) ==
    /\ reqs[q].pc = "query"
    /\ reqs' = [reqs EXCEPT ![q] =
                  IF ok
                  THEN [Respond(@, HistoryOf(@.userId)) EXCEPT
                           !.savedBefore = SavedSoFar]
                  ELSE Throw(@, "query", "persistence")]
    /\ UNCHANGED <<users, cvs, cvScores, cvReports, nextId, nReqs>>
    /\ UNCHANGED <<geminiConfigured, serverClients, constructed>>
    /\ UNCHANGED <<scoringVars, clientVars>>

\* GET /api/auth/check/:email: the select by e-mail with maybeSingle(), then
\* res.json(data || null).
AuthCheck(q, ok) ==
    /\ reqs[q].pc = "check"
    /\ LET found == UsersByEmail(reqs[q].email)
       IN  reqs' = [reqs EXCEPT ![q] =
                      IF ~ok \/ Cardinality(found) > 1
                      THEN Throw(@, "check", "persistence")
                      ELSE Respond(@, found)]
    /\ UNCHANGED <<users, cvs, cvScores, cvReports, nextId, nReqs>>
    /\ UNCHANGED <<geminiConfigured, serverClients, constructed>>
    /\ UNCHANGED <<scoringVars, clientVars>>

\* What the provider does with a request: it answers with a JSON text, with
\* an empty text, with a text that is not JSON, or the call is rejected.
ProviderOutcomes == {"json", "", "malformed", "reject"}

AnalyzeStages == <<"parse", "signals", "report">>

\* An analyze handler that goes on to the next stage after a failed one.
AnalyzeStepLenient(req, outcome) ==
    LET k == Len(req.calls)
        value == IF outcome = "reject" THEN "rejected"
                 ELSE JsonParse(outcome, "{}")
        parts == Append(req.parts, value)
    IN  IF k = Len(AnalyzeStages)
        THEN Respond([req EXCEPT !.parts = parts],
                     {[parsedCv |-> parts[1], signals |-> parts[2],
                       report |-> parts[3]]})
        ELSE [req EXCEPT !.parts = parts, !.pc = AnalyzeStages[k + 1],
                         !.calls = Append(@, AnalyzeStages[k + 1])]

\* POST /api/ai/analyze after the await of stage k: a rejected call or a
\* text that does not parse is thrown to the catch block; otherwise the
\* next request is issued, or after the third the answer is sent.
AnalyzeStep(req, outcome) ==
    LET k == Len(req.calls)
        value == JsonParse(outcome, "{}")
        parts == Append(req.parts, value)
    IN  IF outcome = "reject"
        THEN Throw(req, AnalyzeStages[k], "provider")
        ELSE IF value = "SyntaxError"
        THEN Throw(req, AnalyzeStages[k], "malformed")
        ELSE IF k = Len(AnalyzeStages)
        THEN Respond([req EXCEPT !.parts = parts],
                     {[parsedCv |-> parts[1], signals |-> parts[2],
                       report |-> parts[3]]})
        ELSE [req EXCEPT !.parts = parts, !.pc = AnalyzeStages[k + 1],
                         !.calls = Append(@, AnalyzeStages[k + 1])]

Analyze(q, outcome) ==
    /\ reqs[q].kind = "analyze"
    /\ reqs[q].pc \in {"parse", "signals", "report"}
    /\ reqs' = [reqs EXCEPT ![q] = AnalyzeStep(@, outcome)]
    /\ UNCHANGED <<users, cvs, cvScores, cvReports, nextId, nReqs>>
    /\ UNCHANGED <<geminiConfigured, serverClients, constructed>>
    /\ UNCHANGED <<scoringVars, clientVars>>

\* POST /api/ai/optimize after its await: bullets are parsed with "[]" for
\* an empty text, a summary is the text as it came.
Optimize(q, outcome) ==
    /\ reqs[q].pc = "rewrite"
    /\ LET result == IF reqs[q].type = "bullets"
                     THEN JsonParse(outcome, "[]") ELSE outcome
       IN  reqs' = [reqs EXCEPT ![q] =
                      IF outcome = "reject"
                      THEN Throw(@, "rewrite", "provider")
                      ELSE IF result = "SyntaxError"
                      THEN Throw(@, "rewrite", "malformed")
                      ELSE Respond(@, {[result |-> result]})]
    /\ UNCHANGED <<users, cvs, cvScores, cvReports, nextId, nReqs>>
    /\ UNCHANGED <<geminiConfigured, serverClients, constructed>>
    /\ UNCHANGED <<scoringVars, clientVars>>

InitServer ==
    /\ ServerIdle
    /\ ClientIdle
    /\ storeConfigured \in BOOLEAN
    /\ geminiConfigured \in BOOLEAN
    /\ signals = BestSignals
    /\ scores = NoScores
    /\ scorePc = "input"

NextServer ==
    \/ \E e \in BodyEmails, n \in BodyNames :
          Arrive("authMock", e, n, 0, NoScores, "")
    \/ \E u \in BodyUserIds, sc \in BodyScores :
          Arrive("save", "", "", u, sc, "")
    \/ \E u \in BodyUserIds : Arrive("history", "", "", u, NoScores, "")
    \/ \E q \in ReqIds, ok \in BOOLEAN : AuthSelect(q, ok)
    \/ \E q \in ReqIds, ok \in BOOLEAN : AuthInsert(q, ok)
    \/ \E q \in ReqIds, ok \in BOOLEAN : AuthUpdate(q, ok)
    \/ \E q \in ReqIds, ok \in BOOLEAN : SaveCv(q, ok)
    \/ \E q \in ReqIds, ok \in BOOLEAN : SaveScores(q, ok)
    \/ \E q \in ReqIds, ok \in BOOLEAN : SaveReport(q, ok)
    \/ \E q \in ReqIds, ok \in BOOLEAN : HistoryQuery(q, ok)
    \/ \E e \in BodyEmails : Arrive("authCheck", e, "", 0, NoScores, "")
    \/ Arrive("analyze", "", "", 0, NoScores, "")
    \/ \E ty \in {"summary", "bullets"} :
          Arrive("optimize", "", "", 0, NoScores, ty)
    \/ \E q \in ReqIds, ok \in BOOLEAN : AuthCheck(q, ok)
    \/ \E q \in ReqIds, o \in ProviderOutcomes : Analyze(q, o)
    \/ \E q \in ReqIds, o \in ProviderOutcomes : Optimize(q, o)

SpecServer == InitServer /\ [][NextServer]_vars

(***************************************************************************)
(* The optimize stage: handleOptimize of App.tsx, started from a report.   *)
(***************************************************************************)

\* The catch and finally blocks of handleOptimize.
OptFailed(opt) == [opt EXCEPT !.pc = "failed", !.alerts = @ + 1]

\* A rewrite of the bullets whose failure is not thrown.
BulletFailsNever(outcome) == FALSE

\* optimizeBullets rejects: the request was rejected, or
\* JSON.parse(response.text || "[]") throws.
BulletFails(outcome) ==
    outcome = "reject" \/ JsonParse(outcome, "[]") = "SyntaxError"

\* The flag as a handler without a finally block leaves it:
\* setIsOptimizing(false) as the last statement of the try.
ResetOnSuccess(failed) == failed

\* finally { setIsOptimizing(false) }: after the try and after the catch.
Finally(failed) == FALSE

\* handleOptimize up to its first await.  The report's button "Optimize"
\* calls it: rendered in the report view while optimizedCv is null, disabled
\* while isOptimizing.  Called with no analysis result, which no button
\* offers, it returns at once; otherwise it issues the summary request.
ClickOptimize ==
    /\ \/ analysisResult = NullResult
       \/ view = "report" /\ optimizedCv = NullCv /\ ~isOptimizing
    /\ nOpts < MaxOptimizes
    /\ nOpts' = nOpts + 1
    /\ IF analysisResult = NullResult
       THEN /\ opts' = [opts EXCEPT ![nOpts + 1].pc = "returned"]
            /\ UNCHANGED isOptimizing
       ELSE /\ isOptimizing' = TRUE
            /\ opts' = [opts EXCEPT ![nOpts + 1] =
                          [@ EXCEPT !.pc = "summary",
                                    !.run = analysisResult.run,
                                    !.jobs = analysisResult.jobs,
                                    !.summary = @ + 1]]
    /\ UNCHANGED <<view, user, loadingStep, analysisResult, optimizedCv,
                   apiKey, storeConfigured, aiClient, runs, nRuns>>
    /\ UNCHANGED <<scoringVars, serverVars, historyVars>>

\* The answer of the summary request.  A rejection goes to the catch; after
\* a text, work_experience.map issues one bullet request per entry, or
\* throws when the list is undefined; with no entry Promise.all is fulfilled
\* at once and the content is stored.
SummaryResponse(o, outcome) ==
    /\ opts[o].pc = "summary"
    /\ IF outcome = "reject" \/ opts[o].jobs = NoList
       THEN /\ opts' = [opts EXCEPT ![o] = OptFailed(@)]
            /\ isOptimizing' = Finally(TRUE)
            /\ UNCHANGED optimizedCv
       ELSE IF opts[o].jobs = 0
       THEN /\ opts' = [opts EXCEPT ![o].pc = "stored"]
            /\ optimizedCv' = OptimizedFrom(opts[o].run)
            /\ isOptimizing' = Finally(FALSE)
       ELSE /\ opts' = [opts EXCEPT ![o] =
                          [@ EXCEPT !.pc = "bullets",
                                    !.bullets = opts[o].jobs]]
            /\ UNCHANGED <<optimizedCv, isOptimizing>>
    /\ UNCHANGED <<view, user, loadingStep, analysisResult, apiKey,
                   storeConfigured, aiClient, runs, nRuns, nOpts>>
    /\ UNCHANGED <<scoringVars, serverVars, historyVars>>

\* The answer of one of the bullet requests still pending.  The first
\* failure rejects Promise.all; the last success fulfils it and
\* setOptimizedCv stores the summary and the experience.
BulletResponse(o, outcome) ==
    /\ opts[o].pc = "bullets"
    /\ LET answers == Append(opts[o].answers, outcome)
       IN  IF BulletFails(outcome)
           THEN /\ opts' = [opts EXCEPT ![o] =
                              OptFailed([@ EXCEPT !.answers = answers])]
                /\ isOptimizing' = Finally(TRUE)
                /\ UNCHANGED optimizedCv
           ELSE IF Len(answers) = opts[o].bullets
           THEN /\ opts' = [opts EXCEPT ![o] =
                              [@ EXCEPT !.pc = "stored",
                                        !.answers = answers]]
                /\ optimizedCv' = OptimizedFrom(opts[o].run)
                /\ isOptimizing' = Finally(FALSE)
           ELSE /\ opts' = [opts EXCEPT ![o].answers = answers]
                /\ UNCHANGED <<optimizedCv, isOptimizing>>
    /\ UNCHANGED <<view, user, loadingStep, analysisResult, apiKey,
                   storeConfigured, aiClient, runs, nRuns, nOpts>>
    /\ UNCHANGED <<scoringVars, serverVars, historyVars>>

\* Before any analysis, or with a report showing: the result of a finished
\* analysis, whose parsed CV has some work_experience list or, after an
\* empty parse text, none.
InitOptimize ==
    /\ user \in {NullUser} \cup { ProfileOf(e) : e \in Emails }
    /\ \/ /\ view = "landing"
          /\ loadingStep = ""
          /\ analysisResult = NullResult
       \/ /\ view = "report"
          /\ loadingStep = "Generating diagnostic report..."
          /\ \E j \in JobLists, sc \in BodyScores :
                analysisResult = [kind |-> "result", run |-> 1,
                                  scores |-> sc, jobs |-> j]
    /\ optimizedCv = NullCv
    /\ apiKey = TRUE
    /\ storeConfigured \in BOOLEAN
    /\ aiClient = TRUE
    /\ runs = [r \in RunIds |-> IdleRun]
    /\ nRuns = 0
    /\ OptimizeIdle
    /\ historyFetches = 0
    /\ signals = BestSignals
    /\ scores = NoScores
    /\ scorePc = "input"
    /\ geminiConfigured = TRUE
    /\ ServerIdle

NextOptimize ==
    \/ ClickOptimize
    \/ \E o \in OptIds, x \in {"text", "", "reject"} : SummaryResponse(o, x)
    \/ \E o \in OptIds, x \in ProviderOutcomes : BulletResponse(o, x)

SpecOptimize == InitOptimize /\ [][NextOptimize]_vars

\* The provider requests of an invocation settle, and the continuation of a
\* settled promise is run by the event loop.
SpecOptimizeLive ==
    /\ SpecOptimize
    /\ WF_vars(\E o \in OptIds, x \in {"text", "", "reject"} :
                  SummaryResponse(o, x))
    /\ WF_vars(\E o \in OptIds, x \in ProviderOutcomes :
                  BulletResponse(o, x))

(***************************************************************************)
(* A session: analyses, optimizations and the history view interleaved.    *)
(***************************************************************************)

\* How many requests of fetchHistory are in flight at a time.
MaxHistoryFetches == 1

\* The navigation's History button, rendered while user is truthy:
\* fetchHistory up to its await.
ClickHistory ==
    /\ UserTruthy(user)
    /\ historyFetches < MaxHistoryFetches
    /\ historyFetches' = historyFetches + 1
    /\ UNCHANGED <<view, user, loadingStep, analysisResult, optimizedCv,
                   apiKey, storeConfigured, aiClient, runs, nRuns>>
    /\ UNCHANGED <<scoringVars, serverVars, optimizeVars>>

\* A history answer that goes back to the report view.
HistoryResponseToReport(outcome) ==
    /\ historyFetches > 0
    /\ historyFetches' = historyFetches - 1
    /\ view' = IF outcome = "reject" THEN view ELSE "report"
    /\ UNCHANGED <<user, loadingStep, analysisResult, optimizedCv,
                   apiKey, storeConfigured, aiClient, runs, nRuns>>
    /\ UNCHANGED <<scoringVars, serverVars, optimizeVars>>

\* The answer of GET /api/history/:userId: any HTTP answer shows the history
\* view; a rejected fetch ends fetchHistory with nothing set.
HistoryResponse(outcome) ==
    /\ historyFetches > 0
    /\ historyFetches' = historyFetches - 1
    /\ view' = IF outcome = "reject" THEN view ELSE "history"
    /\ UNCHANGED <<user, loadingStep, analysisResult, optimizedCv,
                   apiKey, storeConfigured, aiClient, runs, nRuns>>
    /\ UNCHANGED <<scoringVars, serverVars, optimizeVars>>

\* A first visit (no cvintel_user in localStorage) with the key and the
\* server's store configured.
InitSession ==
    /\ InitClient
    /\ user = NullUser
    /\ apiKey = TRUE
    /\ storeConfigured = TRUE

\* What the provider puts into a session: to each request a well-formed
\* answer or a rejection.
SessionTexts == {"json", "reject"}
SessionJobs == {1}
SessionSignals == { [g \in SignalGroups |-> "json"] }

\* Analyses and navigation: every handler that writes view or
\* analysisResult, runAnalysis called on blank forms too.
NextViews ==
    \/ ClickAnalyze
    \/ ClickLogo
    \/ ClickHistory
    \/ \E f \in Forms : RunAnalysis(f)
    \/ \E r \in RunIds, o \in {"answer", "reject"} : AuthResponse(r, o)
    \/ \E r \in RunIds, o \in SessionTexts, j \in SessionJobs :
          ParseResponse(r, o, j)
    \/ \E r \in RunIds : SignalRejected(r)
    \/ \E r \in RunIds : SignalFulfilled(r, SessionSignals)
    \/ \E r \in RunIds, o \in SessionTexts : ExplainResponse(r, o)
    \/ \E r \in RunIds, o \in {"ok", "error", "reject"} : SaveResponse(r, o)
    \/ \E x \in {"answer", "reject"} : HistoryResponse(x)

SpecViews == InitSession /\ [][NextViews]_vars

\* The same with the optimize stage.
NextSession ==
    \/ ClickAnalyze
    \/ ClickLogo
    \/ ClickHistory
    \/ ClickOptimize
    \/ \E f \in FilledForms : RunAnalysis(f)
    \/ \E r \in RunIds, o \in {"answer", "reject"} : AuthResponse(r, o)
    \/ \E r \in RunIds, o \in SessionTexts, j \in SessionJobs :
          ParseResponse(r, o, j)
    \/ \E r \in RunIds : SignalRejected(r)
    \/ \E r \in RunIds : SignalFulfilled(r, SessionSignals)
    \/ \E r \in RunIds, o \in SessionTexts : ExplainResponse(r, o)
    \/ \E r \in RunIds, o \in {"ok", "error", "reject"} : SaveResponse(r, o)
    \/ \E o \in OptIds, x \in {"text", "reject"} : SummaryResponse(o, x)
    \/ \E o \in OptIds, x \in SessionTexts : BulletResponse(o, x)
    \/ \E x \in {"answer", "reject"} : HistoryResponse(x)

SpecSession == InitSession /\ [][NextSession]_vars

(***************************************************************************)
(* The scoring harness: an input is drawn, calculateScores is applied.     *)
(***************************************************************************)

\* Signals in which one group decoded to null.
NullGroupInputs ==
    { [s EXCEPT ![g] = Null] :
         s \in {BestSignals, [h \in DOMAIN BestSignals |-> EmptyObject]},
         g \in DOMAIN BestSignals }

InitScoring ==
    /\ signals \in SignalsInputs \cup NullGroupInputs
    /\ scores = NoScores
    /\ scorePc = "input"
    /\ ClientIdle
    /\ storeConfigured = TRUE
    /\ geminiConfigured = TRUE
    /\ ServerIdle

Score ==
    /\ scorePc = "input"
    /\ IF ThrowsTypeError(signals)
       THEN scorePc' = "threw" /\ scores' = NoScores
       ELSE scorePc' = "scored" /\ scores' = calculateScores(signals)
    /\ UNCHANGED signals
    /\ UNCHANGED <<clientVars, serverVars>>

NextScoring == Score

SpecScoring == InitScoring /\ [][NextScoring]_vars

(***************************************************************************)
(* Scoring engine: claims                                                  *)
(***************************************************************************)

\* C1: every returned structure score lies in [10, 20], every keyword,
\* impact, alignment and clarity score in [5, 20], overall is exactly the
\* sum of the five, and overall never exceeds 100.
C1_ScoreRanges ==
    scorePc = "scored" =>
        /\ scores.structure \in 10..20
        /\ scores.keyword   \in 5..20
        /\ scores.impact    \in 5..20
        /\ scores.alignment \in 5..20
        /\ scores.clarity   \in 5..20
        /\ scores.overall = scores.structure + scores.keyword + scores.impact
                            + scores.alignment + scores.clarity
        /\ scores.overall <= 100

\* Every bonus of every dimension taken: the upper end of each range.
C1_Witness ==
    /\ scorePc = "scored"
    /\ scores.structure = 20 /\ scores.keyword = 20 /\ scores.impact = 20
    /\ scores.alignment = 20 /\ scores.clarity = 20
    /\ scores.overall = 100

\* C2: the tier is Low exactly when overall >= 75, Medium exactly when
\* 50 <= overall <= 74, High exactly when overall <= 49.
C2_RiskTiers ==
    scorePc = "scored" =>
        /\ (scores.atsRisk = "Low")    <=> (scores.overall >= 75)
        /\ (scores.atsRisk = "Medium") <=> (scores.overall >= 50
                                            /\ scores.overall <= 74)
        /\ (scores.atsRisk = "High")   <=> (scores.overall <= 49)

\* The boundary the claim singles out first: overall 75 is Low.
C2_Witness ==
    scorePc = "scored" /\ scores.overall = 75 /\ scores.atsRisk = "Low"

\* The other three boundaries are reached as well.
Reach74 == ~(scorePc = "scored" /\ scores.overall = 74)
Reach50 == ~(scorePc = "scored" /\ scores.overall = 50)
Reach49 == ~(scorePc = "scored" /\ scores.overall = 49)

\* The five sub-objects of the argument are present.
GroupsPresent(s) == \A g \in DOMAIN s : ~IsNull(s[g])

RiskTiers == {"Low", "Medium", "High"}

\* C11: calculateScores is total: for every Signals whose five sub-objects
\* are present, with missing fields, empty lists or unexpected enumeration
\* values, the call returns a Scores value and does not throw.
C11_Total ==
    (scorePc # "input" /\ GroupsPresent(signals)) =>
        /\ scorePc = "scored"
        /\ scores.overall \in Nat
        /\ scores.atsRisk \in RiskTiers

\* Scored from groups that are all empty objects: every field is missing.
C11_Witness ==
    /\ scorePc = "scored"
    /\ \A g \in DOMAIN signals : signals[g] = EmptyObject

\* The call does throw when a group is null.
ReachThrew == ~(scorePc = "threw")

\* The value a field of an object reads as, or dflt when it is missing.
Read(obj, f, dflt) == IF f \in DOMAIN obj THEN obj[f] ELSE dflt

\* C12: the structure score is 10, plus 4 when section_order_quality is
\* 'good', plus 4 when formatting_consistency is 'good', plus 2 when the
\* group reports an empty ats_risk_elements list; it is a function of the
\* structure group alone, and the best structure group scores 20.
C12_StructureScore ==
    scorePc = "scored" =>
        LET st == signals.structure
            order  == Read(st, "section_order_quality", "missing") = "good"
            format == Read(st, "formatting_consistency", "missing") = "good"
            noRisk == Read(st, "ats_risk_elements", <<"missing">>) = << >>
        IN  /\ scores.structure = 10 + (IF order THEN 4 ELSE 0)
                                     + (IF format THEN 4 ELSE 0)
                                     + (IF noRisk THEN 2 ELSE 0)
            /\ (order /\ format /\ noRisk) => scores.structure = 20

\* The spec's example, beside four groups that earn no bonus at all.
C12_Witness ==
    /\ scorePc = "scored"
    /\ signals.structure = [section_order_quality |-> "good",
                            formatting_consistency |-> "good",
                            ats_risk_elements |-> << >>]
    /\ signals.keywords = EmptyObject /\ signals.impact = EmptyObject
    /\ signals.alignment = EmptyObject /\ signals.clarity = EmptyObject
    /\ scores.structure = 20
    /\ scores.overall = 40

\* No bonus condition of any of the five groups is met by the argument.
NoBonusTriggered(s) ==
    /\ Read(s.structure, "section_order_quality", "missing") # "good"
    /\ Read(s.structure, "formatting_consistency", "missing") # "good"
    /\ Read(s.structure, "ats_risk_elements", <<"missing">>) # << >>
    /\ Read(s.keywords, "keyword_density_level", "missing") # "moderate"
    /\ Len(Read(s.keywords, "core_role_keywords_present", << >>)) <= 5
    /\ Read(s.impact, "percentage_of_bullets_with_metrics", 0) <= 40
    /\ Read(s.impact, "action_verb_strength", "missing") # "strong"
    /\ Read(s.impact, "achievement_framing_level", "missing") # "high"
    /\ Read(s.alignment, "title_alignment", "missing") # "high"
    /\ Read(s.alignment, "experience_relevance", "missing") # "high"
    /\ Read(s.alignment, "industry_language_presence", "") = ""
    /\ Read(s.clarity, "grammar_error_frequency", "missing") # "none"
    /\ Read(s.clarity, "sentence_clarity", "missing") # "good"
    /\ Read(s.clarity, "tone_professionalism", "missing") # "professional"

\* C13: when no bonus condition is met in any group calculateScores returns
\* overall 30 = 10+5+5+5+5 with tier High, and no input scores below 30.
C13_WorstCase ==
    scorePc = "scored" =>
        /\ scores.overall >= 30
        /\ NoBonusTriggered(signals) =>
               /\ scores.structure = 10 /\ scores.keyword = 5
               /\ scores.impact = 5 /\ scores.alignment = 5
               /\ scores.clarity = 5
               /\ scores.overall = 30
               /\ scores.atsRisk = "High"

\* A worst case made of values the provider sent, each just short of its
\* bonus: metrics at 40 per cent, five keywords, one flagged element.
C13_Witness ==
    /\ scorePc = "scored"
    /\ NoBonusTriggered(signals)
    /\ Read(signals.impact, "percentage_of_bullets_with_metrics", 0) = 40
    /\ Len(Read(signals.keywords, "core_role_keywords_present", << >>)) = 5
    /\ Len(Read(signals.structure, "ats_risk_elements", << >>)) = 1
    /\ scores.overall = 30

\* The alignment group the provider sends for a CV that is negative in every
\* field: the lowest value of each enumeration of the response schema.
NegativeAlignment ==
    [title_alignment |-> "low", experience_relevance |-> "medium",
     industry_language_presence |-> "no"]

\* C23: the +3 of the alignment dimension is granted only for an affirmative
\* industry_language_presence: with the provider value 'no' the alignment
\* score is its base plus the title and relevance bonuses alone, so an
\* alignment group that is negative in every field scores 5.
C23_NoBonusForNo ==
    (/\ scorePc = "scored"
     /\ FieldIs(signals.alignment, "industry_language_presence", "no"))
    => /\ scores.alignment =
             5 + Bonus(FieldIs(signals.alignment, "title_alignment", "high"), 6)
               + Bonus(FieldIs(signals.alignment, "experience_relevance",
                               "high"), 6)
       /\ signals.alignment = NegativeAlignment => scores.alignment = 5

(***************************************************************************)
(* Client pipeline: claims                                                 *)
(***************************************************************************)

\* The signal-detection stage of a run failed: a sub-request was rejected,
\* or the run left the stage through the catch block.
DetectFailed(run) == run.subRejected \/ run.failedStage = "detect"

PersistenceRequests == {"auth", "save"}

\* C3 as stated: a run whose signal-detection stage failed has computed no
\* score, requested no report and issued no persistence call at all,
\* neither the analysis save nor the profile upsert.
C3_NoPersistenceAtAll ==
    \A r \in RunIds :
        DetectFailed(runs[r]) =>
            /\ runs[r].scoreCalls = 0
            /\ runs[r].issued["explain"] = 0
            /\ \A q \in PersistenceRequests : runs[r].issued[q] = 0

\* C3 as amended: a run whose signal-detection stage failed has computed no
\* score, requested no report, stored no result and issued no analysis save;
\* its one persistence call is the profile upsert of its auth step.
C3_DetectFailureAborts ==
    \A r \in RunIds :
        DetectFailed(runs[r]) =>
            /\ runs[r].pc = "failed"
            /\ runs[r].scoreCalls = 0
            /\ runs[r].issued["explain"] = 0
            /\ runs[r].issued["save"] = 0
            /\ runs[r].issued["auth"] = 1
            /\ ~(analysisResult.kind = "result" /\ analysisResult.run = r)

\* A run that failed on a rejected sub-request after some were fulfilled.
C3_Witness ==
    \E r \in RunIds :
        /\ runs[r].subRejected
        /\ runs[r].failedStage = "detect"
        /\ runs[r].fulfilled > 0
        /\ runs[r].issued["auth"] = 1

\* The requests of the stages that follow a stage.
LaterRequests(stage) ==
    CASE stage = "parse"   -> SignalGroups \cup {"explain", "save"}
      [] stage = "detect"  -> {"explain", "save"}
      [] stage = "explain" -> {"save"}
      [] OTHER             -> {}

\* C4: a run that failed in parse, detect or explain has issued no request
\* of a later stage, has shown exactly one alert, has stored no analysis
\* result and saved none; and no request of a run is issued twice.
C4_FailureAborts ==
    \A r \in RunIds :
        /\ \A q \in Requests : runs[r].issued[q] <= 1
        /\ runs[r].alerts <= 1
        /\ runs[r].scoreCalls <= 1
        /\ runs[r].failedStage \in {"parse", "detect", "explain"} =>
              /\ runs[r].pc = "failed"
              /\ runs[r].alerts = 1
              /\ \A q \in LaterRequests(runs[r].failedStage) :
                    runs[r].issued[q] = 0
              /\ runs[r].failedStage \in {"parse", "detect"} =>
                    runs[r].scoreCalls = 0
              /\ ~(analysisResult.kind = "result" /\ analysisResult.run = r)

\* A run whose explain request failed, after scoring.
C4_Witness ==
    \E r \in RunIds :
        /\ runs[r].failedStage = "explain"
        /\ runs[r].scoreCalls = 1
        /\ runs[r].alerts = 1

\* C6: a run that ended in the report view has issued a save request, and
\* the request carries the id of the profile its auth step returned.
C6_ReportImpliesSaved ==
    \A r \in RunIds :
        runs[r].pc = "report" =>
            /\ runs[r].issued["save"] = 1
            /\ runs[r].currentUser.kind = "profile" =>
                  /\ "userId" \in DOMAIN runs[r].saveBody
                  /\ runs[r].saveBody.userId = runs[r].currentUser.id

\* C9: the sub-requests are issued only after the parse response, scoring
\* happens only after all five sub-requests were fulfilled, the explain
\* request is issued only after scoring, and a run with a rejected
\* sub-request does not score.
C9_StageOrder ==
    \A r \in RunIds :
        /\ (\E g \in SignalGroups : runs[r].issued[g] > 0) =>
              runs[r].parsed /\ runs[r].issued["parse"] = 1
        /\ runs[r].parsed => \A g \in SignalGroups : runs[r].issued[g] = 1
        /\ runs[r].scoreCalls > 0 =>
              /\ runs[r].fulfilled = 5
              /\ \A g \in SignalGroups : runs[r].issued[g] = 1
        /\ runs[r].issued["explain"] > 0 => runs[r].scoreCalls = 1
        /\ runs[r].subRejected => runs[r].scoreCalls = 0

\* A run that scored and asked for the explanation, all five fulfilled.
C9_Witness ==
    \E r \in RunIds :
        /\ runs[r].pc = "explain"
        /\ runs[r].fulfilled = 5
        /\ runs[r].scoreCalls = 1
        /\ runs[r].issued["explain"] = 1

(***************************************************************************)
(* Server and store: claims                                                *)
(***************************************************************************)

\* A save whose score insert or report insert was answered with an error.
FailedPartway(req) ==
    req.kind = "save" /\ req.pc = "done" /\ req.failedAt \in {"score", "report"}

\* C5: the save of one analysis is atomic: when the score insert or the
\* report insert fails, the store afterwards holds no row of that analysis,
\* so no CV row without its score row and its report row remains.
C5_SaveAtomic ==
    \A q \in ReqIds :
        FailedPartway(reqs[q]) =>
            /\ \A c \in cvs : c.id # reqs[q].cvId
            /\ \A s \in cvScores : s.cv_id # reqs[q].cvId
            /\ \A p \in cvReports : p.cv_id # reqs[q].cvId

\* C7: after any interleaving of POST /api/auth/mock requests the users
\* table holds at most one row per e-mail.
C7_UniqueByEmail ==
    \A u \in users, v \in users : u.email = v.email => u.id = v.id

\* C8: a history request answered with success returns, for every save of
\* that user answered with success before the query ran, a record whose
\* overall_score and ats_risk_level are the saved scores.overall and
\* scores.atsRisk, and returns no record of a save made for another user.
C8_RoundTrip ==
    \A h \in ReqIds :
        (reqs[h].kind = "history" /\ reqs[h].status = 200) =>
            /\ \A s \in reqs[h].savedBefore :
                  reqs[s].userId = reqs[h].userId =>
                      \E rec \in reqs[h].data :
                          /\ rec.cv_id = reqs[s].cvId
                          /\ rec.overall_score = reqs[s].scores.overall
                          /\ rec.ats_risk_level = reqs[s].scores.atsRisk
            /\ \A s \in ReqIds :
                  (reqs[s].kind = "save"
                     /\ reqs[s].userId # reqs[h].userId) =>
                      \A rec \in reqs[h].data : rec.cv_id # reqs[s].cvId

\* A save answered with success, then the history of the same user answered
\* with the saved record.
C8_Witness ==
    \E h \in ReqIds, s \in ReqIds :
        /\ reqs[h].kind = "history" /\ reqs[h].status = 200
        /\ s \in reqs[h].savedBefore
        /\ reqs[s].userId = reqs[h].userId
        /\ reqs[h].data # {}

\* The requests whose handler asks for the client `which`.
Using(which) ==
    { q \in ReqIds : reqs[q].kind # "none" /\ ClientOf(reqs[q].kind) = which }

\* C14: each client is created on first use and at most once: without the
\* credentials every use fails with the configuration error, before any
\* call to the provider or the store, and no client is cached; once a
\* client exists every use returns that client.
C14_LazyClients ==
    \A which \in {"ai", "store"} :
        /\ constructed[which] <= 1
        /\ serverClients[which] = constructed[which]
        /\ \A q \in Using(which) :
              IF Configured(which)
              THEN reqs[q].client = serverClients[which]
                   /\ reqs[q].client # 0
              ELSE /\ reqs[q].client = 0
                   /\ reqs[q].status = 500 /\ reqs[q].error = "config"
                   /\ reqs[q].calls = << >>
                   /\ serverClients[which] = 0
        /\ ~storeConfigured =>
              users = {} /\ cvs = {} /\ cvScores = {} /\ cvReports = {}

\* Two requests were handed the one store client.
C14_Witness ==
    \E q \in ReqIds, r \in ReqIds :
        /\ q # r
        /\ {q, r} \subseteq Using("store")
        /\ reqs[q].client = 1 /\ reqs[r].client = 1
        /\ constructed["store"] = 1

\* The configuration error is reached as well.
ReachConfigError == ~(\E q \in ReqIds : reqs[q].error = "config")

ErrorKinds == {"config", "provider", "persistence", "malformed"}

\* C15: in every handler a configuration error, a provider error, a
\* persistence error and a malformed provider text are answered alike, with
\* status 500 and an error string; a request is answered once, and while
\* its handler is running not at all.
C15_UniformErrors ==
    \A q \in ReqIds :
        /\ reqs[q].answers = (IF reqs[q].pc = "done" THEN 1 ELSE 0)
        /\ reqs[q].pc = "done" => reqs[q].status \in {200, 500}
        /\ reqs[q].pc # "done" => reqs[q].status = 0
        /\ reqs[q].error \in ErrorKinds =>
              reqs[q].status = 500 /\ reqs[q].data = ErrorAnswer
        /\ reqs[q].status = 500 => reqs[q].error \in ErrorKinds
        /\ reqs[q].status = 200 =>
              reqs[q].error = "none" /\ reqs[q].data # ErrorAnswer

\* A configuration error of one handler beside a persistence error of
\* another, answered alike.
C15_Witness ==
    \E q \in ReqIds, r \in ReqIds :
        /\ reqs[q].error = "config" /\ reqs[r].error = "persistence"
        /\ reqs[q].status = 500 /\ reqs[r].status = 500
        /\ reqs[q].data = reqs[r].data

\* The other two kinds of error are reached as well.
ReachProviderErrors ==
    ~(\E q \in ReqIds, r \in ReqIds :
         reqs[q].error = "provider" /\ reqs[r].error = "malformed")

\* The first n stages of the analyze pipeline.
FirstStages(n) == SubSeq(AnalyzeStages, 1, n)

\* C16: POST /api/ai/analyze issues parse, signals, report in that order,
\* each at most once and each only after the one before it succeeded; it
\* answers the three parts only when all three succeeded; when a stage
\* fails no later request is issued and the answer is an error.
C16_AnalyzeOrder ==
    \A q \in ReqIds :
        reqs[q].kind = "analyze" =>
            LET calls == reqs[q].calls
                parts == reqs[q].parts
            IN  /\ calls = FirstStages(Len(calls))
                /\ Len(calls) <= Len(parts) + 1
                /\ \A i \in 1..Len(parts) : parts[i] \in {"value", "{}"}
                /\ reqs[q].status = 200 =>
                      /\ calls = AnalyzeStages
                      /\ Len(parts) = 3
                      /\ reqs[q].data = {[parsedCv |-> parts[1],
                                          signals |-> parts[2],
                                          report |-> parts[3]]}
                /\ \A k \in 1..3 :
                      reqs[q].failedAt = AnalyzeStages[k] =>
                          /\ calls = FirstStages(k)
                          /\ Len(parts) = k - 1
                          /\ reqs[q].status = 500

\* The second stage failed after the first succeeded: no third request.
C16_Witness ==
    \E q \in ReqIds :
        /\ reqs[q].kind = "analyze"
        /\ reqs[q].failedAt = "signals"
        /\ reqs[q].calls = <<"parse", "signals">>
        /\ reqs[q].status = 500

\* The whole pipeline succeeds as well.
ReachAnalyzed ==
    ~(\E q \in ReqIds : reqs[q].kind = "analyze" /\ reqs[q].status = 200)

Ids(rows) == { u.id : u \in rows }

\* C17: analysis records are insert-only: no step removes or changes a row
\* of cvs, cv_scores or cv_reports; no step removes a profile; and the only
\* steps that change a row at all are the updates of POST /api/auth/mock.
C17_InsertOnly ==
    [][ /\ cvs \subseteq cvs'
        /\ cvScores \subseteq cvScores'
        /\ cvReports \subseteq cvReports'
        /\ Ids(users) \subseteq Ids(users')
        /\ ~(users \subseteq users') =>
              \E q \in ReqIds :
                  /\ reqs[q].kind = "authMock" /\ reqs[q].pc = "update"
                  /\ reqs'[q].status = 200 ]_vars

\* Two saves have been answered with success and the three rows of each are
\* in the store.
C17_Witness ==
    \E q \in ReqIds, r \in ReqIds :
        /\ q # r
        /\ reqs[q].kind = "save" /\ reqs[q].status = 200
        /\ reqs[r].kind = "save" /\ reqs[r].status = 200
        /\ \A x \in {q, r} :
              /\ \E c \in cvs : c.id = reqs[x].cvId
                                /\ c.user_id = reqs[x].userId
              /\ \E s \in cvScores : s.cv_id = reqs[x].cvId
              /\ \E p \in cvReports : p.cv_id = reqs[x].cvId

\* The write of a POST /api/auth/mock request that is answered with success
\* in this step.
AuthWrites(q) ==
    /\ reqs[q].kind = "authMock"
    /\ reqs[q].pc \in {"insert", "update"}
    /\ reqs'[q].status = 200

\* C19: when the handler found a profile for the e-mail it creates no row:
\* it writes the five profile fields of the body over the row it found,
\* leaves the row's id and e-mail and every other row alone and answers the
\* updated row; when it found none it inserts one row, with the e-mail and
\* the fields of the body, and answers it.
C19_Upsert ==
    [][ \A q \in ReqIds :
          AuthWrites(q) =>
            LET body == BodyProfile(reqs[q].name)
            IN  IF reqs[q].pc = "update"
                THEN \E u \in users, v \in users' :
                        /\ u.id = reqs[q].existing.id /\ v.id = u.id
                        /\ v.email = u.email
                        /\ \A f \in ProfileFields : v[f] = body[f]
                        /\ users' \ {v} = users \ {u}
                        /\ Cardinality(users') = Cardinality(users)
                        /\ reqs'[q].data = {v}
                ELSE \E row \in users' :
                        /\ row \notin users
                        /\ users' = users \cup {row}
                        /\ row.id \notin Ids(users)
                        /\ row.email = reqs[q].email
                        /\ \A f \in ProfileFields : row[f] = body[f]
                        /\ reqs'[q].data = {row} ]_vars

\* One request inserted the profile, a later one with another body updated
\* it: one row, with the id of the insert and the fields of the update.
C19_Witness ==
    \E q \in ReqIds, r \in ReqIds :
        /\ reqs[q].kind = "authMock" /\ reqs[q].status = 200
        /\ reqs[q].existing = NoRow
        /\ reqs[r].kind = "authMock" /\ reqs[r].status = 200
        /\ reqs[r].existing # NoRow
        /\ reqs[r].name # reqs[q].name
        /\ Cardinality(users) = 1
        /\ \A u \in users :
              /\ u.id = reqs[r].existing.id
              /\ u.full_name = reqs[r].name

AllEmptyTexts == [g \in SignalGroups |-> ""]

\* C20: an empty provider text is no failure: no run enters its catch block
\* for an empty text, only for an error thrown (a rejection, or the
\* SyntaxError of a non-empty text that is not JSON), and a run whose five
\* signal texts were all empty has passed the detection stage and scored
\* overall 30 with tier High.
C20_EmptyTextAccepted ==
    \A r \in RunIds :
        /\ runs[r].pc = "failed" => runs[r].cause = "thrown"
        /\ runs[r].pc # "failed" => runs[r].cause = "none"
        /\ runs[r].texts = AllEmptyTexts =>
              /\ runs[r].failedStage \notin {"parse", "detect"}
              /\ runs[r].scoreCalls = 1
              /\ runs[r].scores.overall = 30
              /\ runs[r].scores.atsRisk = "High"
              /\ runs[r].issued["explain"] = 1

\* A run whose five signal texts were all empty is showing its report.
C20_Witness ==
    \E r \in RunIds :
        /\ runs[r].texts = AllEmptyTexts
        /\ runs[r].pc = "report"
        /\ analysisResult = [kind |-> "result", run |-> r,
                             scores |-> runs[r].scores,
                             jobs |-> runs[r].jobs]
        /\ runs[r].scores.overall = 30

(***************************************************************************)
(* Optimize stage: claims                                                  *)
(***************************************************************************)

\* C18: no partial completion.  An invocation of handleOptimize that found
\* an analysis result issues one
\* summary request and, once that has succeeded, one bullet request per
\* work-experience entry; it stores optimized content only when the summary
\* request and every bullet request succeeded; when any of them fails
\* optimizedCv is left as it was and one failure is reported.
C18_NoPartialOptimize ==
    /\ \A o \in OptIds :
          opts[o].pc \notin {"idle", "returned"} =>
              /\ opts[o].summary = 1
              /\ opts[o].bullets \in {0, opts[o].jobs}
              /\ opts[o].pc \in {"bullets", "stored"} =>
                    opts[o].jobs # NoList /\ opts[o].bullets = opts[o].jobs
              /\ Len(opts[o].answers) <= opts[o].bullets
              /\ opts[o].pc = "stored" =>
                    /\ Len(opts[o].answers) = opts[o].bullets
                    /\ \A i \in 1..Len(opts[o].answers) :
                          opts[o].answers[i] \in {"json", ""}
              /\ opts[o].alerts = (IF opts[o].pc = "failed" THEN 1 ELSE 0)
    /\ (optimizedCv # NullCv) <=> (\E o \in OptIds : opts[o].pc = "stored")

\* One bullet request of two succeeded, the other failed: nothing is stored
\* and the failure was reported once.
C18_Witness ==
    \E o \in OptIds :
        /\ opts[o].pc = "failed"
        /\ opts[o].bullets = 2
        /\ opts[o].answers = <<"json", "reject">>
        /\ opts[o].alerts = 1
        /\ optimizedCv = NullCv

\* Content is stored after two bullet requests succeeded.
ReachOptimized ==
    ~(\E o \in OptIds : opts[o].pc = "stored" /\ opts[o].bullets = 2
                        /\ optimizedCv = OptimizedFrom(opts[o].run))

\* The invocation is between setIsOptimizing(true) and its finally block.
Optimizing(o) == opts[o].pc \in {"summary", "bullets"}

\* C22: every invocation of handleOptimize that set isOptimizing to true
\* sets it back to false once its requests have settled, whether it stored
\* content or failed; the flag is true exactly while an invocation is
\* between the two; and an invocation that finds no analysis result
\* changes no state and issues no request.
C22_FlagReset ==
    /\ \A o \in OptIds :
          Optimizing(o) ~> (opts[o].pc \in {"stored", "failed"}
                            /\ ~isOptimizing)
    /\ [](isOptimizing <=> \E o \in OptIds : Optimizing(o))
    /\ [][\A o \in OptIds :
            (analysisResult = NullResult /\ opts'[o] # opts[o])
               => /\ opts'[o] = [IdleOpt EXCEPT !.pc = "returned"]
                  /\ UNCHANGED <<isOptimizing, optimizedCv, analysisResult,
                                 view, user, loadingStep>>]_vars

\* An invocation whose second bullet request was rejected has put the flag
\* back.
C22_Witness ==
    \E o \in OptIds :
        /\ opts[o].pc = "failed"
        /\ Len(opts[o].answers) = 2
        /\ BulletFails(opts[o].answers[2])
        /\ ~isOptimizing

\* An invocation without an analysis result has returned.
ReachReturned == ~(\E o \in OptIds : opts[o].pc = "returned")

(***************************************************************************)
(* Client: guards, the optimize stage over several analyses, the views     *)
(***************************************************************************)

\* The invocation found cvText, context.email or context.targetRole empty.
FoundBlank(run) ==
    run.id # 0 /\ (run.cvText = "" \/ run.email = "" \/ run.targetRole = "")

\* C21: an invocation of runAnalysis that finds cvText, context.email or
\* context.targetRole empty leaves view, loadingStep, analysisResult,
\* optimizedCv and user as they were and issues no auth, provider or save
\* request, neither in the step of the call nor later.
C21_BlankIsNoOp ==
    [][\A r \in RunIds :
          /\ (runs[r].id = 0 /\ FoundBlank(runs'[r]))
                => UNCHANGED <<view, loadingStep, analysisResult,
                               optimizedCv, user>>
          /\ FoundBlank(runs'[r])
                => /\ runs'[r].pc = "returned"
                   /\ \A q \in Requests : runs'[r].issued[q] = 0]_vars

\* A blank target role after an analysis was shown: the result stays, the
\* view stays 'onboarding'.
C21_Witness ==
    \E r \in RunIds :
       /\ FoundBlank(runs[r])
       /\ runs[r].cvText # "" /\ runs[r].email # ""
       /\ runs[r].pc = "returned"
       /\ analysisResult # NullResult
       /\ view = "onboarding"


\* C24: whenever optimizedCv is non-null it was built from the analysis
\* result that analysisResult holds: an invocation of handleOptimize started
\* for an earlier analysis never stores its content next to the result of a
\* newer one.
C24_OptimizedFromCurrent ==
    optimizedCv # NullCv =>
        /\ analysisResult # NullResult
        /\ optimizedCv.run = analysisResult.run

\* A run has shown its report: parse, detect, score and explain succeeded.
AllStagesSucceeded(run) ==
    /\ run.pc = "report"
    /\ run.parsed
    /\ PromiseAll(run.fulfilled)
    /\ run.scoreCalls = 1
    /\ run.scores # NoScores
    /\ run.issued["explain"] = 1
    /\ run.failedStage = "none"

\* C25: in every reachable state view = 'report' implies analysisResult is
\* non-null; the report view is entered only by the last step of a run whose
\* parse, detect, score and explain stages all succeeded; and analysisResult
\* is never set back to null.
C25_ReportHasResult ==
    /\ [](view = "report" => analysisResult # NullResult)
    /\ [][/\ (view # "report" /\ view' = "report")
               => \E r \in RunIds : /\ runs[r].pc \in {"explain", "save"}
                                    /\ AllStagesSucceeded(runs'[r])
          /\ analysisResult # NullResult
               => analysisResult' # NullResult]_vars

\* A report is showing after an earlier run failed and the history view was
\* visited.
C25_Witness ==
    /\ view = "report"
    /\ \E r, q \in RunIds :
          /\ q < r
          /\ runs[q].pc = "failed"
          /\ AllStagesSucceeded(runs[r])
          /\ analysisResult.kind = "result" /\ analysisResult.run = r

\* C26: a run whose save request was answered with an error status ends on
\* the failure path, alert and view 'landing', and never in the report
\* view; so a run that has shown its report had its save answered 200.
C26_SaveErrorFails ==
    \A r \in RunIds :
        /\ runs[r].saveAnswer = "error"
              => runs[r].pc = "failed" /\ runs[r].alerts = 1
        /\ (runs[r].pc = "report" /\ runs[r].issued["save"] = 1)
              => runs[r].saveAnswer = "ok"

\* The run is between setView('analyzing') and its last statement.
InFlight(run) == run.pc \in {"auth", "parse", "detect", "explain", "save"}

\* C27: at most one runAnalysis pipeline is in flight at any time, whatever
\* the user clicks while the view is 'analyzing'; so the run that sets
\* analysisResult or the final view is always the newest one started.
C27_OneRunInFlight ==
    /\ Cardinality({ r \in RunIds : InFlight(runs[r]) }) <= 1
    /\ \A r \in RunIds :
          InFlight(runs[r]) => r = nRuns

====
